---- MODULE Spec2Model ----
(***************************************************************************)
(* Model of the clang-check AST dump parser of Doxyclang                   *)
(* (src/doxyclang.py): Parser.build_tree and the node constructors, the    *)
(* per-file function registry (FileContainer) and the parameter hint       *)
(* aggregation (collect_parameters / _reduce_parameters).                  *)
(*                                                                         *)
(* Strings the code takes apart (signatures, comment text) are sequences   *)
(* of one-character strings; names and paths the code only compares are    *)
(* TLA+ strings.  Python's None is the value None.                         *)
(***************************************************************************)
EXTENDS Integers, Sequences, FiniteSets, TLC

VARIABLES pc, exc, parsefile, curfile, stack, nodes, files, root, mainfile,
          parameters, input, result, regs, stdout

vars == <<pc, exc, parsefile, curfile, stack, nodes, files, root, mainfile,
          parameters, input, result, regs, stdout>>

(***************************************************************************)
(* Bounds of the model                                                     *)
(***************************************************************************)
MaxLines == 4
MaxLookupLines == 3
MaxFuncLine == 6
MaxQueryLine == 11
MaxRegLines == 3
MaxRegLine == 2
MaxRegs == 4
MaxDescs == 4
MaxHintLines == 7
MaxPayloadLines == 4
MaxSkipLines == 4
MaxSourceLines == 3
MaxDeclLines == 4
MaxDeclDepth == 2
MaxSessionNodes == 5
MaxStepLines == 5
MaxCollectLines == 6

None == "None"
NoAttr == "<no attribute>"
NoLine == -1
NoLoc == <<>>
NoRoot == 0
EmptyDict == <<>>

Files == {"/a.c", "/b.c"}

(***************************************************************************)
(* String helpers (Python str methods on character sequences)              *)
(***************************************************************************)
RECURSIVE LStrip(_)
LStrip(s) == IF s # <<>> /\ Head(s) = " " THEN LStrip(Tail(s)) ELSE s

RECURSIVE RStrip(_)
RStrip(s) ==
  IF s # <<>> /\ s[Len(s)] = " " THEN RStrip(SubSeq(s, 1, Len(s) - 1)) ELSE s

Strip(s) == RStrip(LStrip(s))

\* s.split(ch)[0]: the text before the first ch (all of s when ch is absent)
RECURSIVE SplitFirst(_, _)
SplitFirst(s, ch) ==
  IF s = <<>> \/ Head(s) = ch THEN <<>>
  ELSE <<Head(s)>> \o SplitFirst(Tail(s), ch)

Last(s) == s[Len(s)]

NoResult == [op |-> "none"]

(***************************************************************************)
(* Parser.get_clang_class: the Clang<Kind> classes of the module           *)
(***************************************************************************)
ClangClasses ==
  {"ClangObject", "ClangDefaultObject", "ClangTranslationUnitDecl",
   "ClangTypedefDecl", "ClangFunctionDecl", "ClangParmVarDecl",
   "ClangFullComment", "ClangParagraphComment", "ClangTextComment",
   "ClangInlineCommandComment", "ClangParamCommandComment"}

ClassName ==
  [TranslationUnitDecl |-> "ClangTranslationUnitDecl",
   TypedefDecl |-> "ClangTypedefDecl",
   FunctionDecl |-> "ClangFunctionDecl",
   ParmVarDecl |-> "ClangParmVarDecl",
   FullComment |-> "ClangFullComment",
   ParagraphComment |-> "ClangParagraphComment",
   TextComment |-> "ClangTextComment",
   InlineCommandComment |-> "ClangInlineCommandComment",
   ParamCommandComment |-> "ClangParamCommandComment"]

get_clang_class(name) ==
  IF name \in DOMAIN ClassName THEN ClassName[name] ELSE None

(***************************************************************************)
(* Parser._extract_filename: third, second, then first path slot           *)
(***************************************************************************)
\* the slots taken in the order first, second, third
_extract_filename_FirstSlot(mo, default) ==
  IF mo.path1 # NoLoc THEN mo.path1[1]
  ELSE IF mo.path2 # NoLoc THEN mo.path2[1]
  ELSE IF mo.path3 # NoLoc THEN mo.path3[1]
  ELSE default

_extract_filename(mo, default) ==
  IF mo.path3 # NoLoc THEN mo.path3[1]
  ELSE IF mo.path2 # NoLoc THEN mo.path2[1]
  ELSE IF mo.path1 # NoLoc THEN mo.path1[1]
  ELSE default

(***************************************************************************)
(* Node constructors.  A construction yields the exception it raises (or   *)
(* None), the object, and whether the object registered itself.            *)
(***************************************************************************)
ClangObject(cls, filename) ==
  [cls |-> cls, filename |-> filename, children |-> <<>>,
   kind |-> NoAttr, name |-> NoAttr, line |-> NoLine, ret |-> NoAttr,
   signature |-> NoAttr, text |-> NoAttr]

Built(obj) == [exc |-> None, obj |-> obj, reg |-> FALSE]
Registered(obj) == [exc |-> None, obj |-> obj, reg |-> TRUE]
Raised(e, obj) == [exc |-> e, obj |-> obj, reg |-> FALSE]

ClangDefaultObject(mo, filename) ==
  Built([ClangObject("ClangDefaultObject", filename) EXCEPT !.kind = mo.stmt])

\* SCRATCH_CRE.match(right), FUNC_CRE.match(right)
ScratchMatch(right) == right.t = "scratch"
FuncMatch(right) ==
  /\ right.t = "decl"
  /\ \A i \in 1..Len(right.mods) :
        right.mods[i] \in {"implicit", "used", "referenced"}
  /\ right.name # None
  /\ right.sig # <<>>

\* the constructor without its `if not line: return`
ClangFunctionDecl_NoLineCheck(mo, filename) ==
  LET base == [ClangObject("ClangFunctionDecl", filename)
                 EXCEPT !.name = "", !.line = 0]
      right == mo.right
  IN IF right.t = "none" THEN Raised("TypeError", base)
     ELSE IF ScratchMatch(right) THEN Built(base)
     ELSE IF ~FuncMatch(right) THEN Raised("AttributeError", base)
     ELSE LET line == IF mo.line1 # NoLoc THEN mo.line1[1]
                      ELSE IF mo.path1 # NoLoc THEN mo.path1[2]
                      ELSE 0
          IN Registered([base EXCEPT
                    !.name = right.name, !.line = line,
                    !.ret = Strip(SplitFirst(right.sig, "("))])

\* the constructor taking the column of a path:line:col slot for the line
ClangFunctionDecl_PathColumn(mo, filename) ==
  LET base == [ClangObject("ClangFunctionDecl", filename)
                 EXCEPT !.name = "", !.line = 0]
      right == mo.right
  IN IF right.t = "none" THEN Raised("TypeError", base)
     ELSE IF ScratchMatch(right) THEN Built(base)
     ELSE IF ~FuncMatch(right) THEN Raised("AttributeError", base)
     ELSE LET line == IF mo.line1 # NoLoc THEN mo.line1[1]
                      ELSE IF mo.path1 # NoLoc THEN mo.path1[3]
                      ELSE 0
          IN IF line = 0 THEN Built(base)
             ELSE Registered([base EXCEPT
                    !.name = right.name, !.line = line,
                    !.ret = Strip(SplitFirst(right.sig, "("))])

ClangFunctionDecl(mo, filename) ==
  LET base == [ClangObject("ClangFunctionDecl", filename)
                 EXCEPT !.name = "", !.line = 0]
      right == mo.right
  IN IF right.t = "none" THEN Raised("TypeError", base)
     ELSE IF ScratchMatch(right) THEN Built(base)
     ELSE IF ~FuncMatch(right) THEN Raised("AttributeError", base)
     ELSE LET line == IF mo.line1 # NoLoc THEN mo.line1[1]
                      ELSE IF mo.path1 # NoLoc THEN mo.path1[2]
                      ELSE 0
          IN IF line = 0 THEN Built(base)
             ELSE Registered([base EXCEPT
                    !.name = right.name, !.line = line,
                    !.ret = Strip(SplitFirst(right.sig, "("))])

\* ClangParmVarDecl.CRE.match(right)
ParmMatch(right) ==
  /\ right.t = "decl"
  /\ \A i \in 1..Len(right.mods) : right.mods[i] = "used"
  /\ right.sig # <<>>

ClangParmVarDecl(mo, filename) ==
  LET base == ClangObject("ClangParmVarDecl", filename)
      right == mo.right
  IN IF right.t = "none" THEN Raised("TypeError", base)
     ELSE IF ~ParmMatch(right) THEN Raised("NameError", base)
     ELSE Built([base EXCEPT !.name = right.name, !.signature = right.sig])

ClangTextComment(mo, filename) ==
  LET base == ClangObject("ClangTextComment", filename)
      right == mo.right
  IN IF right.t = "none" THEN Raised("TypeError", base)
     ELSE IF right.t # "text" THEN Raised("AttributeError", base)
     ELSE Built([base EXCEPT !.text = Strip(right.text)])

ClangInlineCommandComment(mo, filename) ==
  LET base == ClangObject("ClangInlineCommandComment", filename)
      right == mo.right
  IN IF right.t = "none" THEN Raised("TypeError", base)
     ELSE IF right.t # "inline" THEN Built([base EXCEPT !.text = <<>>])
     ELSE Built([base EXCEPT !.text = Strip(right.text)])

ClangParamCommandComment(mo, filename) ==
  LET base == ClangObject("ClangParamCommandComment", filename)
      right == mo.right
  IN IF right.t = "none" THEN Raised("TypeError", base)
     ELSE IF right.t # "param" THEN Built([base EXCEPT !.name = ""])
     ELSE Built([base EXCEPT !.name = right.name])

\* ClangFunctionDecl.args: the children that are ClangParmVarDecl objects
args(ns, n) ==
  SelectSeq(ns[n].children, LAMBDA c : ns[c].cls = "ClangParmVarDecl")

\* cls(self, m, filename) of build_tree
Construct(cls, mo, filename) ==
  CASE cls = "ClangDefaultObject" -> ClangDefaultObject(mo, filename)
    [] cls = "ClangFunctionDecl" -> ClangFunctionDecl(mo, filename)
    [] cls = "ClangParmVarDecl" -> ClangParmVarDecl(mo, filename)
    [] cls = "ClangTextComment" -> ClangTextComment(mo, filename)
    [] cls = "ClangInlineCommandComment" ->
         ClangInlineCommandComment(mo, filename)
    [] cls = "ClangParamCommandComment" ->
         ClangParamCommandComment(mo, filename)
    [] OTHER -> Built(ClangObject(cls, filename))

(***************************************************************************)
(* Function registry                                                       *)
(***************************************************************************)
MAX_SEEK_LINE == 4

\* add_function keeping the entry a line already has
add_function_FirstWins(functions, line, id) ==
  [l \in DOMAIN functions \cup {line} |->
     IF l \in DOMAIN functions THEN functions[l] ELSE id]

\* FileContainer.add_function: self._functions[clfunc.line] = clfunc
add_function(functions, line, id) ==
  [l \in DOMAIN functions \cup {line} |->
     IF l = line THEN id ELSE functions[l]]

\* Parser.register_function
register_function(fs, id, line, filename) ==
  LET table == IF filename \in DOMAIN fs THEN fs[filename] ELSE EmptyDict
  IN [f \in DOMAIN fs \cup {filename} |->
        IF f = filename THEN add_function(table, line, id) ELSE fs[f]]

\* sorted(self._functions): the keys in ascending order
RECURSIVE sorted(_)
sorted(S) ==
  IF S = {} THEN <<>>
  ELSE LET m == CHOOSE x \in S : \A y \in S : x <= y
       IN <<m>> \o sorted(S \ {m})

\* values a query returns: an object of the tree, '' or None
Obj(id) == [t |-> "object", id |-> id]
EmptyStr == [t |-> "str"]
PyNone == [t |-> "None"]

\* the loop without its `l < line: continue`
RECURSIVE SeekLine_NoSkip(_, _, _)
SeekLine_NoSkip(functions, ls, line) ==
  IF ls = <<>> THEN EmptyStr
  ELSE IF Head(ls) > line + MAX_SEEK_LINE THEN EmptyStr
  ELSE Obj(functions[Head(ls)])

\* the loop breaking at `l >= line + MAX_SEEK_LINE`
RECURSIVE SeekLine_ShortWindow(_, _, _)
SeekLine_ShortWindow(functions, ls, line) ==
  IF ls = <<>> THEN EmptyStr
  ELSE IF Head(ls) < line
       THEN SeekLine_ShortWindow(functions, Tail(ls), line)
  ELSE IF Head(ls) >= line + MAX_SEEK_LINE THEN EmptyStr
  ELSE Obj(functions[Head(ls)])

\* the loop of FileContainer.get_at_line over the sorted lines
RECURSIVE SeekLine(_, _, _)
SeekLine(functions, ls, line) ==
  IF ls = <<>> THEN EmptyStr
  ELSE IF Head(ls) < line THEN SeekLine(functions, Tail(ls), line)
  ELSE IF Head(ls) > line + MAX_SEEK_LINE THEN EmptyStr
  ELSE Obj(functions[Head(ls)])

\* FileContainer.get_at_line
get_at_line(functions, line) ==
  IF line \in DOMAIN functions THEN Obj(functions[line])
  ELSE SeekLine(functions, sorted(DOMAIN functions), line)

Returned(op, arg, val) == [op |-> op, arg |-> arg, exc |-> None, val |-> val]
Thrown(op, arg, e) == [op |-> op, arg |-> arg, exc |-> e, val |-> PyNone]

\* get_func without its `if not self._mainfile` guard
get_func_NoGuard(line) ==
  IF mainfile = None THEN Thrown("get_func", line, "AttributeError")
  ELSE Returned("get_func", line, get_at_line(files[mainfile], line))

\* Parser.get_func
get_func(line) ==
  IF mainfile = None THEN Returned("get_func", line, PyNone)
  ELSE Returned("get_func", line, get_at_line(files[mainfile], line))

(***************************************************************************)
(* Parser._reduce_parameters: Counter(params[k]).most_common()             *)
(***************************************************************************)
\* Counter(seq): <<element, count>> pairs in first-seen order
RECURSIVE Counter(_)
Counter(seq) ==
  IF seq = <<>> THEN <<>>
  ELSE LET c == Counter(SubSeq(seq, 1, Len(seq) - 1))
           x == seq[Len(seq)]
       IN IF \E i \in 1..Len(c) : c[i][1] = x
          THEN [i \in 1..Len(c) |->
                  IF c[i][1] = x THEN <<x, c[i][2] + 1>> ELSE c[i]]
          ELSE Append(c, <<x, 1>>)

\* the sort ascending by count instead
InsertByCount_Ascending(done, item) ==
  LET before == {i \in 1..Len(done) : done[i][2] <= item[2]}
      n == IF before = {} THEN 0
           ELSE CHOOSE i \in before : \A j \in before : j <= i
  IN SubSeq(done, 1, n) \o <<item>> \o SubSeq(done, n + 1, Len(done))

\* where a stable descending sort puts an item among the ones sorted so far
InsertByCount(done, item) ==
  LET before == {i \in 1..Len(done) : done[i][2] >= item[2]}
      n == IF before = {} THEN 0
           ELSE CHOOSE i \in before : \A j \in before : j <= i
  IN SubSeq(done, 1, n) \o <<item>> \o SubSeq(done, n + 1, Len(done))

\* most_common(): sorted(items, key=count, reverse=True), a stable sort
RECURSIVE most_common(_)
most_common(items) ==
  IF items = <<>> THEN <<>>
  ELSE InsertByCount(most_common(SubSeq(items, 1, Len(items) - 1)),
                     items[Len(items)])

_reduce_parameters(params) ==
  [k \in DOMAIN params |->
     LET mc == most_common(Counter(params[k]))
     IN [i \in 1..Len(mc) |-> mc[i][1]]]

(***************************************************************************)
(* Parameter hints: the text of comment nodes and collect_parameters.      *)
(* An evaluation yields the exception it raises (or None) and its value.   *)
(***************************************************************************)
Ok(v) == [exc |-> None, val |-> v]
Err(e) == [exc |-> e, val |-> <<>>]

\* ' '.join(texts)
RECURSIVE Join(_)
Join(texts) ==
  IF texts = <<>> THEN <<>>
  ELSE IF Len(texts) = 1 THEN texts[1]
  ELSE texts[1] \o <<" ">> \o Join(Tail(texts))

\* c.text and [c.text for c in children]
RECURSIVE text(_)
RECURSIVE texts(_)
text(n) ==
  IF nodes[n].cls \in {"ClangTextComment", "ClangInlineCommandComment"}
  THEN Ok(nodes[n].text)
  ELSE IF nodes[n].cls = "ClangParagraphComment"
  THEN LET r == texts(nodes[n].children)
       IN IF r.exc = "AttributeError" THEN Err("ValueError")
          ELSE IF r.exc # None THEN r
          ELSE Ok(Join(r.val))
  ELSE Err("AttributeError")
texts(cs) ==
  IF cs = <<>> THEN Ok(<<>>)
  ELSE LET t == text(Head(cs))
       IN IF t.exc # None THEN t
          ELSE LET r == texts(Tail(cs))
               IN IF r.exc # None THEN r ELSE Ok(<<t.val>> \o r.val)

\* ClangParamCommandComment.description
description(n) ==
  LET r == texts(nodes[n].children)
  IN IF r.exc # None THEN r ELSE Ok(Strip(Join(r.val)))

DictSet(d, k, v) == [x \in DOMAIN d \cup {k} |-> IF x = k THEN v ELSE d[x]]

\* the loop of ClangFullComment.get_parameters
RECURSIVE GetParameters(_, _)
GetParameters(cs, acc) ==
  IF cs = <<>> THEN Ok(acc)
  ELSE IF nodes[Head(cs)].cls = "ClangParamCommandComment"
  THEN LET d == description(Head(cs))
       IN IF d.exc # None THEN d
          ELSE GetParameters(Tail(cs), DictSet(acc, nodes[Head(cs)].name,
                                               d.val))
  ELSE GetParameters(Tail(cs), acc)

\* ClangFullComment.get_parameters
get_parameters(n) == GetParameters(nodes[n].children, EmptyDict)

\* ClangObject._update_parameters; isList is isinstance(descs, list)
_update_parameters(params, nparams, isList) ==
  [k \in DOMAIN params \cup DOMAIN nparams |->
     (IF k \in DOMAIN params THEN params[k] ELSE <<>>)
     \o (IF k \notin DOMAIN nparams THEN <<>>
         ELSE IF isList THEN nparams[k] ELSE <<nparams[k]>>)]

RECURSIVE collect_parameters(_, _)
RECURSIVE CollectChildren(_, _, _)
RECURSIVE FullComment_collect_parameters_NoFilter(_, _)
RECURSIVE FullComment_collect_parameters(_, _)

\* the loop of ClangObject.collect_parameters
CollectChildren(cs, filename, params) ==
  IF cs = <<>> THEN Ok(params)
  ELSE LET r == collect_parameters(Head(cs), filename)
       IN IF r.exc # None THEN r
          ELSE CollectChildren(Tail(cs), filename,
                               _update_parameters(params, r.val, TRUE))

\* ClangObject.collect_parameters
Object_collect_parameters(n, filename) ==
  CollectChildren(nodes[n].children, filename, EmptyDict)

\* ClangFullComment.collect_parameters without the file test
FullComment_collect_parameters_NoFilter(n, filename) ==
  LET r == Object_collect_parameters(n, filename)
  IN IF r.exc # None THEN r
     ELSE LET g == get_parameters(n)
          IN IF g.exc # None THEN g
             ELSE Ok(_update_parameters(r.val, g.val, FALSE))

\* ClangFullComment.collect_parameters
FullComment_collect_parameters(n, filename) ==
  IF filename # None /\ nodes[n].filename # filename THEN Ok(EmptyDict)
  ELSE LET r == Object_collect_parameters(n, filename)
       IN IF r.exc # None THEN r
          ELSE LET g == get_parameters(n)
               IN IF g.exc # None THEN g
                  ELSE Ok(_update_parameters(r.val, g.val, FALSE))

\* c.collect_parameters(filename), by the class of c
collect_parameters(n, filename) ==
  IF nodes[n].cls = "ClangFullComment"
  THEN FullComment_collect_parameters(n, filename)
  ELSE Object_collect_parameters(n, filename)

(***************************************************************************)
(* Parser.build_tree, one line of the dump at a time                       *)
(***************************************************************************)
add_child(ns, parent, child) ==
  [ns EXCEPT ![parent].children = Append(@, child)]

\* the end of build_tree and what parse does after it
Finish(stk, ns, fs, rs) ==
  /\ nodes' = ns
  /\ regs' = rs
  /\ files' = fs
  /\ stack' = stk
  /\ IF stk = <<>>
     THEN /\ pc' = "raised"
          /\ exc' = "IndexError"
          /\ UNCHANGED <<root, mainfile>>
     ELSE /\ pc' = "parsed"
          /\ exc' = None
          /\ root' = stk[1]
          /\ mainfile' = IF parsefile \in DOMAIN fs THEN parsefile
                         ELSE mainfile

Raise(e, stk, ns, fs, rs) ==
  /\ regs' = rs
  /\ pc' = "raised"
  /\ exc' = e
  /\ nodes' = ns
  /\ files' = fs
  /\ stack' = stk
  /\ UNCHANGED <<root, mainfile>>

\* the loop body without `d += 1`: move = d - depth
ParseLine_Unshifted(l) ==
  /\ pc = "building"
  /\ input' = Append(input, l)
  /\ UNCHANGED <<parsefile, parameters, result>>
  /\ LET filename == _extract_filename(l, curfile)
         found == get_clang_class(l.stmt)
         cls == IF found # None THEN found ELSE "ClangDefaultObject"
         c == Construct(cls, l, filename)
         id == Len(nodes) + 1
     IN /\ curfile' = filename
        /\ IF c.exc # None
           THEN /\ Raise(c.exc, stack, nodes, files, regs)
                /\ UNCHANGED stdout
           ELSE
             LET files1 == IF c.reg
                           THEN register_function(files, id, c.obj.line,
                                                  filename)
                           ELSE files
                 regs1 == IF c.reg
                          THEN Append(regs, [file |-> filename,
                                             line |-> c.obj.line, id |-> id])
                          ELSE regs
                 nodes1 == Append(nodes, c.obj)
                 depth == Len(stack)
                 move == l.depth - depth
             IN IF depth = 0
                THEN /\ stack' = <<id>>
                     /\ nodes' = nodes1
                     /\ files' = files1
                     /\ regs' = regs1
                     /\ UNCHANGED <<pc, exc, root, mainfile, stdout>>
                ELSE IF move > 1
                THEN /\ stdout' = stdout \cup {"ERROR: too deep"}
                     /\ Finish(stack, nodes1, files1, regs1)
                ELSE
                  LET open == IF move > 0 THEN stack
                              ELSE SubSeq(stack, 1, depth - (1 - move))
                  IN IF open = <<>>
                     THEN /\ Raise("IndexError", open, nodes1, files1, regs1)
                          /\ UNCHANGED stdout
                     ELSE /\ nodes' = add_child(nodes1, Last(open), id)
                          /\ stack' = Append(open, id)
                          /\ files' = files1
                          /\ regs' = regs1
                          /\ UNCHANGED <<pc, exc, root, mainfile, stdout>>

\* the loop body of build_tree for one yielded line
ParseLine(l) ==
  /\ pc = "building"
  /\ input' = Append(input, l)
  /\ UNCHANGED <<parsefile, parameters, result>>
  /\ LET filename == _extract_filename(l, curfile)
         found == get_clang_class(l.stmt)
         cls == IF found # None THEN found ELSE "ClangDefaultObject"
         c == Construct(cls, l, filename)
         id == Len(nodes) + 1
     IN /\ curfile' = filename
        /\ IF c.exc # None
           THEN /\ Raise(c.exc, stack, nodes, files, regs)
                /\ UNCHANGED stdout
           ELSE
             LET files1 == IF c.reg
                           THEN register_function(files, id, c.obj.line,
                                                  filename)
                           ELSE files
                 regs1 == IF c.reg
                          THEN Append(regs, [file |-> filename,
                                             line |-> c.obj.line, id |-> id])
                          ELSE regs
                 nodes1 == Append(nodes, c.obj)
                 depth == Len(stack)
                 move == (l.depth + 1) - depth
             IN IF depth = 0
                THEN /\ stack' = <<id>>
                     /\ nodes' = nodes1
                     /\ files' = files1
                     /\ regs' = regs1
                     /\ UNCHANGED <<pc, exc, root, mainfile, stdout>>
                ELSE IF move > 1
                THEN /\ stdout' = stdout \cup {"ERROR: too deep"}
                     /\ Finish(stack, nodes1, files1, regs1)
                ELSE
                  LET open == IF move > 0 THEN stack
                              ELSE SubSeq(stack, 1, depth - (1 - move))
                  IN IF open = <<>>
                     THEN /\ Raise("IndexError", open, nodes1, files1, regs1)
                          /\ UNCHANGED stdout
                     ELSE /\ nodes' = add_child(nodes1, Last(open), id)
                          /\ stack' = Append(open, id)
                          /\ files' = files1
                          /\ regs' = regs1
                          /\ UNCHANGED <<pc, exc, root, mainfile, stdout>>

\* the dump ends
EndOfStream ==
  /\ pc = "building"
  /\ Finish(stack, nodes, files, regs)
  /\ UNCHANGED <<parsefile, curfile, parameters, input, result, stdout>>

\* Parser.parse(filename, cmddir) starts reading the dump
Parse(filename) ==
  /\ pc = "init"
  /\ pc' = "building"
  /\ parsefile' = filename
  /\ stack' = <<>>
  /\ curfile' = ""
  /\ input' = <<>>
  /\ result' = NoResult
  /\ UNCHANGED <<exc, nodes, files, root, mainfile, parameters, regs, stdout>>

\* a caller registers a function object again: Parser.register_function
RegisterFunction(id, filename) ==
  /\ pc = "parsed"
  /\ nodes[id].cls = "ClangFunctionDecl"
  /\ nodes[id].line # 0
  /\ files' = register_function(files, id, nodes[id].line, filename)
  /\ regs' = Append(regs, [file |-> filename, line |-> nodes[id].line,
                           id |-> id])
  /\ UNCHANGED <<pc, exc, parsefile, curfile, stack, nodes, root, mainfile,
                 parameters, input, result, stdout>>

\* Parser.collect_parameters(all, filename)
Parser_collect_parameters(all, filename) ==
  LET arg == [all |-> all, filename |-> filename]
      default == ~all /\ (filename = None \/ filename = "")
  IN IF default /\ mainfile = None
     THEN Thrown("collect_parameters", arg, "AttributeError")
     ELSE IF root = NoRoot
     THEN Thrown("collect_parameters", arg, "AttributeError")
     ELSE LET r == collect_parameters(root, IF default THEN mainfile
                                            ELSE filename)
          IN IF r.exc # None THEN Thrown("collect_parameters", arg, r.exc)
             ELSE Returned("collect_parameters", arg,
                           _reduce_parameters(r.val))

CollectParameters(all, filename) ==
  /\ pc \in {"init", "parsed", "raised"}
  /\ result' = Parser_collect_parameters(all, filename)
  /\ UNCHANGED <<pc, exc, parsefile, curfile, stack, nodes, files, root,
                 mainfile, parameters, input, regs, stdout>>

\* the property Parser.parameters
Parameters ==
  /\ pc \in {"init", "parsed", "raised"}
  /\ IF parameters # EmptyDict
     THEN /\ result' = Returned("parameters", None, parameters)
          /\ UNCHANGED parameters
     ELSE LET r == Parser_collect_parameters(FALSE, None)
          IN IF r.exc # None
             THEN /\ result' = Thrown("parameters", None, r.exc)
                  /\ UNCHANGED parameters
             ELSE /\ result' = Returned("parameters", None, r.val)
                  /\ parameters' = r.val
  /\ UNCHANGED <<pc, exc, parsefile, curfile, stack, nodes, files, root,
                 mainfile, input, regs, stdout>>

\* a caller asks for the function at a line
GetFunc(line) ==
  /\ pc \in {"init", "parsed", "raised"}
  /\ result' = get_func(line)
  /\ UNCHANGED <<pc, exc, parsefile, curfile, stack, nodes, files, root,
                 mainfile, parameters, input, regs, stdout>>

\* Parser.__init__
Init ==
  /\ pc = "init"
  /\ exc = None
  /\ parsefile = None
  /\ curfile = ""
  /\ stack = <<>>
  /\ nodes = <<>>
  /\ files = EmptyDict
  /\ root = NoRoot
  /\ mainfile = None
  /\ parameters = EmptyDict
  /\ input = <<>>
  /\ result = NoResult
  /\ regs = <<>>
  /\ stdout = {}

(***************************************************************************)
(* Parser.parse as a function of the Parser's fields and of the whole      *)
(* stream: the same loop, for the statements that compare two parses       *)
(***************************************************************************)
\* the fields of a Parser after __init__
NewParser ==
  [pc |-> "init", exc |-> None, curfile |-> "", stack |-> <<>>,
   nodes |-> <<>>, files |-> EmptyDict, root |-> NoRoot, mainfile |-> None,
   parameters |-> EmptyDict, regs |-> <<>>, stdout |-> {}]

\* self._root = stack[0], then the end of parse
finish(p, filename) ==
  IF p.stack = <<>>
  THEN [p EXCEPT !.pc = "raised", !.exc = "IndexError"]
  ELSE [p EXCEPT !.pc = "parsed", !.exc = None, !.root = p.stack[1],
                 !.mainfile = IF filename \in DOMAIN p.files THEN filename
                              ELSE @]

\* the body of the loop of build_tree for one matched line
build_step(p, mo, parsed) ==
  LET filename == _extract_filename(mo, p.curfile)
      found == get_clang_class(mo.stmt)
      cls == IF found # None THEN found ELSE "ClangDefaultObject"
      c == Construct(cls, mo, filename)
      id == Len(p.nodes) + 1
      q == [p EXCEPT !.curfile = filename]
  IN IF c.exc # None THEN [q EXCEPT !.pc = "raised", !.exc = c.exc]
     ELSE
       LET r == [q EXCEPT
                   !.nodes = Append(@, c.obj),
                   !.files = IF c.reg
                             THEN register_function(@, id, c.obj.line,
                                                    filename)
                             ELSE @,
                   !.regs = IF c.reg
                            THEN Append(@, [file |-> filename,
                                            line |-> c.obj.line, id |-> id])
                            ELSE @]
           depth == Len(p.stack)
           move == (mo.depth + 1) - depth
       IN IF depth = 0 THEN [r EXCEPT !.stack = <<id>>]
          ELSE IF move > 1
          THEN finish([r EXCEPT !.stdout = @ \cup {"ERROR: too deep"}],
                      parsed)
          ELSE
            LET open == IF move > 0 THEN p.stack
                        ELSE SubSeq(p.stack, 1, depth - (1 - move))
            IN IF open = <<>>
               THEN [r EXCEPT !.stack = open, !.pc = "raised",
                              !.exc = "IndexError"]
               ELSE [r EXCEPT !.nodes = add_child(@, Last(open), id),
                              !.stack = Append(open, id)]

\* the loop of build_tree over the matched lines still to read
RECURSIVE build_lines(_, _, _)
build_lines(p, lines, parsed) ==
  IF lines = <<>> \/ p.pc # "building" THEN p
  ELSE build_lines(build_step(p, Head(lines), parsed), Tail(lines), parsed)

\* Parser.parse(filename) reading the matched lines of a whole dump
parse(p, filename, lines) ==
  LET b == build_lines([p EXCEPT !.pc = "building", !.stack = <<>>,
                                 !.curfile = ""], lines, filename)
  IN IF b.pc = "building" THEN finish(b, filename) ELSE b

\* the fields of the Parser of the model, and of the parse it is in
Self ==
  [pc |-> pc, exc |-> exc, curfile |-> curfile, stack |-> stack,
   nodes |-> nodes, files |-> files, root |-> root, mainfile |-> mainfile,
   parameters |-> parameters, regs |-> regs, stdout |-> stdout]

(***************************************************************************)
(* Lines of the dump as LINE_CRE captures them: depth, stmt, the path and  *)
(* line:col captures of the three location slots, and the payload (right)  *)
(***************************************************************************)
NoPayload == [t |-> "none"]
Scratch == [t |-> "scratch"]
Junk == [t |-> "junk"]
Decl(mods, name, sig) == [t |-> "decl", mods |-> mods, name |-> name,
                          sig |-> sig]

Line(depth, stmt, path1, line1, path2, path3, right) ==
  [depth |-> depth, stmt |-> stmt, path1 |-> path1, line1 |-> line1,
   path2 |-> path2, path3 |-> path3, right |-> right]

IntIntSig == <<"i", " ", "(", "i", ")">>
IntSig == <<"i">>

\* the lines of the tree specification, at a given depth
TreeLines(d) ==
  { Line(d, "TranslationUnitDecl", NoLoc, NoLoc, NoLoc, NoLoc, NoPayload),
    Line(d, "CompoundStmt", NoLoc, <<3, 1>>, NoLoc, NoLoc, NoPayload),
    Line(d, "FunctionDecl", <<"/a.c", 1, 1>>, NoLoc, NoLoc, NoLoc,
         Decl(<<>>, "foo", IntIntSig)),
    Line(d, "FunctionDecl", NoLoc, NoLoc, NoLoc, NoLoc,
         Decl(<<>>, "bar", IntIntSig)),
    Line(d, "FunctionDecl", NoLoc, <<2, 1>>, NoLoc, NoLoc, Scratch),
    Line(d, "FunctionDecl", NoLoc, <<2, 1>>, NoLoc, NoLoc, Junk),
    Line(d, "ParmVarDecl", NoLoc, NoLoc, NoLoc, NoLoc,
         Decl(<<"used">>, "n", IntSig)) }

ReadTreeLine ==
  /\ Len(input) < MaxLines
  /\ \E d \in 0..(Len(stack) + 1) : \E l \in TreeLines(d) : ParseLine(l)

StartParse == \E f \in Files : Parse(f)

Next == StartParse \/ ReadTreeLine \/ EndOfStream

Spec == Init /\ [][Next]_vars

(***************************************************************************)
(* Lookup specification: dumps of function declarations, then queries      *)
(***************************************************************************)
LookupLines(d) ==
  { Line(d, "TranslationUnitDecl", NoLoc, NoLoc, NoLoc, NoLoc, NoPayload) }
  \cup
  { Line(d, "FunctionDecl", <<"/a.c", n, 1>>, NoLoc, NoLoc, NoLoc,
         Decl(<<>>, "foo", IntIntSig)) : n \in 1..MaxFuncLine }
  \cup
  { Line(d, "FunctionDecl", <<"/b.c", 1, 1>>, NoLoc, NoLoc, NoLoc,
         Decl(<<>>, "bar", IntIntSig)) }

\* the first line is the root, the others are its children
ReadLookupLine ==
  /\ Len(input) < MaxLookupLines
  /\ \E l \in LookupLines(IF stack = <<>> THEN 0 ELSE 1) : ParseLine(l)

AskFunc == \E line \in 0..MaxQueryLine : GetFunc(line)

NextLookup == StartParse \/ ReadLookupLine \/ EndOfStream \/ AskFunc

SpecLookup == Init /\ [][NextLookup]_vars

(***************************************************************************)
(* Registry specification: dumps of function declarations that share       *)
(* lines, then further register_function calls                             *)
(***************************************************************************)
RegistryLines(d) ==
  { Line(d, "TranslationUnitDecl", NoLoc, NoLoc, NoLoc, NoLoc, NoPayload) }
  \cup
  { Line(d, "FunctionDecl", <<f, n, 1>>, NoLoc, NoLoc, NoLoc,
         Decl(<<>>, "foo", IntIntSig)) : f \in Files, n \in 1..MaxRegLine }

ReadRegistryLine ==
  /\ Len(input) < MaxRegLines
  /\ \E l \in RegistryLines(IF stack = <<>> THEN 0 ELSE 1) : ParseLine(l)

RegisterAgain ==
  /\ Len(regs) < MaxRegs
  /\ \E id \in 1..Len(nodes) : \E f \in Files : RegisterFunction(id, f)

NextRegistry ==
  StartParse \/ ReadRegistryLine \/ EndOfStream \/ RegisterAgain

SpecRegistry == Init /\ [][NextRegistry]_vars

(***************************************************************************)
(* Hints specification: dumps of documentation comments in two files,      *)
(* then the hint queries                                                   *)
(***************************************************************************)
Text(chars) == [t |-> "text", text |-> chars]
Param(name) == [t |-> "param", name |-> name]

\* a function of the first file and comments of both under the root, their
\* parameter commands, and the text of those
HintLines(d) ==
  IF d = 0
  THEN { Line(0, "TranslationUnitDecl", NoLoc, NoLoc, NoLoc, NoLoc,
              NoPayload) }
  ELSE IF d = 1
  THEN { Line(1, "FunctionDecl", <<"/a.c", 1, 1>>, NoLoc, NoLoc, NoLoc,
              Decl(<<>>, "foo", IntIntSig)),
         Line(1, "FullComment", <<"/a.c", 1, 1>>, NoLoc, NoLoc, NoLoc,
              NoPayload),
         Line(1, "FullComment", <<"/b.c", 1, 1>>, NoLoc, NoLoc, NoLoc,
              NoPayload) }
  ELSE IF d = 2
  THEN { Line(2, "ParamCommandComment", NoLoc, <<2, 1>>, NoLoc, NoLoc,
              Param("count")) }
  ELSE { Line(3, "TextComment", NoLoc, NoLoc, NoLoc, NoLoc,
              Text(<<" ", "a">>)) }

ReadHintLine ==
  /\ Len(input) < MaxHintLines
  /\ \E d \in 0..3 :
       /\ d <= Len(stack)
       /\ stack = <<>> => d = 0
       /\ stack # <<>> => d >= 1
       /\ \E l \in HintLines(d) : ParseLine(l)

AskParameters ==
  \/ \E all \in BOOLEAN : \E f \in Files \cup {None} :
       CollectParameters(all, f)
  \/ Parameters

NextHints == StartParse \/ ReadHintLine \/ EndOfStream \/ AskParameters

SpecHints == Init /\ [][NextHints]_vars

(***************************************************************************)
(* Reduce specification: _reduce_parameters applied to collected           *)
(* descriptions                                                            *)
(***************************************************************************)
Names == {"count", "n"}
Descs == {<<"a">>, <<"b">>, <<"b", " ", "c">>}

BoundedSeq(S, n) == UNION {[1..m -> S] : m \in 0..n}

InitReduce ==
  /\ pc = "init"
  /\ exc = None
  /\ parsefile = None
  /\ curfile = ""
  /\ stack = <<>>
  /\ nodes = <<>>
  /\ files = EmptyDict
  /\ root = NoRoot
  /\ mainfile = None
  /\ parameters = EmptyDict
  /\ input \in [Names -> BoundedSeq(Descs, MaxDescs)]
  /\ result = NoResult
  /\ regs = <<>>
  /\ stdout = {}

Reduce ==
  /\ result = NoResult
  /\ result' = Returned("_reduce_parameters", input,
                        _reduce_parameters(input))
  /\ UNCHANGED <<pc, exc, parsefile, curfile, stack, nodes, files, root,
                 mainfile, parameters, input, regs, stdout>>

NextReduce == Reduce

SpecReduce == InitReduce /\ [][NextReduce]_vars

(***************************************************************************)
(* Payload specification: dumps whose FunctionDecl and ParmVarDecl lines   *)
(* carry a payload their constructor's grammar matches, one it does not    *)
(* match, or none                                                          *)
(***************************************************************************)
PayloadLines(d) ==
  { Line(d, "TranslationUnitDecl", NoLoc, NoLoc, NoLoc, NoLoc, NoPayload),
    Line(d, "FunctionDecl", <<"/a.c", 1, 1>>, NoLoc, NoLoc, NoLoc,
         Decl(<<>>, "foo", IntIntSig)),
    Line(d, "FunctionDecl", NoLoc, <<2, 1>>, NoLoc, NoLoc, Junk),
    Line(d, "FunctionDecl", NoLoc, <<2, 1>>, NoLoc, NoLoc, NoPayload),
    Line(d, "ParmVarDecl", NoLoc, NoLoc, NoLoc, NoLoc,
         Decl(<<"used">>, "n", IntSig)),
    Line(d, "ParmVarDecl", NoLoc, NoLoc, NoLoc, NoLoc, Junk),
    Line(d, "ParmVarDecl", NoLoc, NoLoc, NoLoc, NoLoc, NoPayload) }

\* the first line is the root, the others lie below an open node
ReadPayloadLine ==
  /\ Len(input) < MaxPayloadLines
  /\ \E d \in 0..Len(stack) :
       /\ stack = <<>> => d = 0
       /\ stack # <<>> => d >= 1
       /\ \E l \in PayloadLines(d) : ParseLine(l)

NextPayload == StartParse \/ ReadPayloadLine \/ EndOfStream

SpecPayload == Init /\ [][NextPayload]_vars

(***************************************************************************)
(* Skip specification: dumps with lines LINE_CRE does not match (blank     *)
(* lines, diagnostics of the compiler) between the lines of the tree       *)
(***************************************************************************)
Unmatched(kind) == [unmatched |-> kind]
UnmatchedLines == {Unmatched("blank"), Unmatched("text")}

\* LINE_CRE.match(l) in _get_next_line
Matches(l) == "stmt" \in DOMAIN l

\* _get_next_line reads a line that is not yielded, and forgets the file
SkipLine_ResetsFile(l) ==
  /\ pc = "building"
  /\ ~Matches(l)
  /\ input' = Append(input, l)
  /\ curfile' = ""
  /\ UNCHANGED <<pc, exc, parsefile, stack, nodes, files, root,
                 mainfile, parameters, result, regs, stdout>>

\* _get_next_line reads a line that is not yielded: `continue`
SkipLine(l) ==
  /\ pc = "building"
  /\ ~Matches(l)
  /\ input' = Append(input, l)
  /\ UNCHANGED <<pc, exc, parsefile, curfile, stack, nodes, files, root,
                 mainfile, parameters, result, regs, stdout>>

SkipLines(d) ==
  { Line(d, "TranslationUnitDecl", NoLoc, NoLoc, NoLoc, NoLoc, NoPayload),
    Line(d, "CompoundStmt", NoLoc, <<3, 1>>, NoLoc, NoLoc, NoPayload),
    Line(d, "FunctionDecl", <<"/a.c", 1, 1>>, NoLoc, NoLoc, NoLoc,
         Decl(<<>>, "foo", IntIntSig)),
    Line(d, "FunctionDecl", NoLoc, <<2, 1>>, NoLoc, NoLoc,
         Decl(<<>>, "bar", IntIntSig)) }

\* one line of the stream: yielded to build_tree when it matches
ReadSkipLine ==
  /\ Len(input) < MaxSkipLines
  /\ \/ \E d \in 0..Len(stack) :
          /\ stack = <<>> => d = 0
          /\ stack # <<>> => d >= 1
          /\ \E l \in SkipLines(d) : Matches(l) /\ ParseLine(l)
     \/ \E l \in UnmatchedLines : SkipLine(l)

NextSkip == StartParse \/ ReadSkipLine \/ EndOfStream

SpecSkip == Init /\ [][NextSkip]_vars

(***************************************************************************)
(* Source specification: dumps whose lines carry a full path in any of     *)
(* their three location slots                                              *)
(***************************************************************************)
SourceLines(d) ==
  { Line(d, "DeclStmt", p1, IF p1 = NoLoc THEN <<5, 1>> ELSE NoLoc, p2, p3,
         NoPayload) :
      p1 \in {NoLoc, <<"/a.c", 1, 1>>, <<"/b.c", 1, 1>>},
      p2 \in {NoLoc, <<"/b.c", 2, 1>>},
      p3 \in {NoLoc, <<"/c.h", 3, 1>>} }

ReadSourceLine ==
  /\ Len(input) < MaxSourceLines
  /\ \E l \in SourceLines(IF stack = <<>> THEN 0 ELSE 1) : ParseLine(l)

NextSource == StartParse \/ ReadSourceLine \/ EndOfStream

SpecSource == Init /\ [][NextSource]_vars

(***************************************************************************)
(* Declaration specification: function declarations located by a           *)
(* path:line:col slot, a line:col slot or neither, with parameters and     *)
(* statements below them                                                   *)
(***************************************************************************)
PtrSig == <<"i", " ", "*", " ", "(", "v", ")">>

DeclLines(d) ==
  IF d = 0
  THEN { Line(0, "TranslationUnitDecl", NoLoc, NoLoc, NoLoc, NoLoc,
              NoPayload) }
  ELSE
  { Line(d, "FunctionDecl", <<"/a.c", 10, 1>>, NoLoc, NoLoc, NoLoc,
         Decl(<<>>, "foo", IntIntSig)),
    Line(d, "FunctionDecl", NoLoc, <<12, 1>>, NoLoc, NoLoc,
         Decl(<<"used">>, "bar", PtrSig)),
    Line(d, "FunctionDecl", NoLoc, NoLoc, NoLoc, NoLoc,
         Decl(<<>>, "foo", IntIntSig)),
    Line(d, "FunctionDecl", <<"/a.c", 10, 1>>, NoLoc, <<"/b.c", 20, 1>>,
         NoLoc, Decl(<<>>, "bar", PtrSig)),
    Line(d, "ParmVarDecl", NoLoc, NoLoc, NoLoc, NoLoc,
         Decl(<<"used">>, "n", IntSig)),
    Line(d, "CompoundStmt", NoLoc, <<11, 1>>, NoLoc, NoLoc, NoPayload) }

ReadDeclLine ==
  /\ Len(input) < MaxDeclLines
  /\ \E d \in 0..MaxDeclDepth :
       /\ d <= Len(stack)
       /\ stack = <<>> => d = 0
       /\ stack # <<>> => d >= 1
       /\ \E l \in DeclLines(d) : ParseLine(l)

NextDecl == StartParse \/ ReadDeclLine \/ EndOfStream

SpecDecl == Init /\ [][NextDecl]_vars

(***************************************************************************)
(* Sessions specification: Parser.parse called again on the same Parser,   *)
(* with the queries between and after the parses                           *)
(***************************************************************************)
\* Parser.parse(filename, cmddir) on a Parser that has parsed before
ParseAgain(filename) ==
  /\ pc \in {"parsed", "raised"}
  /\ pc' = "building"
  /\ exc' = None
  /\ parsefile' = filename
  /\ stack' = <<>>
  /\ curfile' = ""
  /\ input' = <<>>
  /\ result' = NoResult
  /\ UNCHANGED <<nodes, files, root, mainfile, parameters, regs, stdout>>

SessionLines(d) ==
  IF d = 0
  THEN { Line(0, "TranslationUnitDecl", NoLoc, NoLoc, NoLoc, NoLoc,
              NoPayload) }
  ELSE IF d = 1
  THEN { Line(1, "FunctionDecl", <<"/a.c", 1, 1>>, NoLoc, NoLoc, NoLoc,
              Decl(<<>>, "foo", IntIntSig)),
         Line(1, "FunctionDecl", <<"/b.c", 2, 1>>, NoLoc, NoLoc, NoLoc,
              Decl(<<>>, "bar", IntIntSig)),
         Line(1, "FullComment", <<"/a.c", 1, 1>>, NoLoc, NoLoc, NoLoc,
              NoPayload) }
  ELSE { Line(2, "ParamCommandComment", NoLoc, <<2, 1>>, NoLoc, NoLoc,
              Param("count")) }

\* the objects of earlier parses stay in memory: the lines of all parses
\* together are bounded
ReadSessionLine ==
  /\ Len(nodes) < MaxSessionNodes
  /\ \E d \in 0..2 :
       /\ d <= Len(stack)
       /\ stack = <<>> => d = 0
       /\ stack # <<>> => d >= 1
       /\ \E l \in SessionLines(d) : ParseLine(l)

StartParseAgain == \E f \in Files : ParseAgain(f)

AskSession == Parameters \/ \E line \in 1..2 : GetFunc(line)

NextSessions ==
  StartParse \/ StartParseAgain \/ ReadSessionLine \/ EndOfStream
    \/ AskSession

SpecSessions == Init /\ [][NextSessions]_vars

(***************************************************************************)
(* Steps specification: dumps of plain nodes at every depth up to one      *)
(* below the stack, and beyond                                             *)
(***************************************************************************)
StepLines(d) ==
  { Line(d, "TranslationUnitDecl", NoLoc, NoLoc, NoLoc, NoLoc, NoPayload),
    Line(d, "CompoundStmt", NoLoc, <<3, 1>>, NoLoc, NoLoc, NoPayload) }

ReadStepLine ==
  /\ Len(input) < MaxStepLines
  /\ \E d \in 0..(Len(stack) + 1) : \E l \in StepLines(d) : ParseLine(l)

NextSteps == StartParse \/ ReadStepLine \/ EndOfStream

SpecSteps == Init /\ [][NextSteps]_vars

(***************************************************************************)
(* Collect specification: documentation comments with several parameter    *)
(* commands, and the collection Parser.collect_parameters starts at the    *)
(* root                                                                    *)
(***************************************************************************)
\* self._root.collect_parameters(filename) of Parser.collect_parameters
RootCollectParameters(filename) ==
  /\ pc = "parsed"
  /\ LET r == collect_parameters(root, filename)
     IN result' = IF r.exc # None
                  THEN Thrown("_root.collect_parameters", filename, r.exc)
                  ELSE Returned("_root.collect_parameters", filename, r.val)
  /\ UNCHANGED <<pc, exc, parsefile, curfile, stack, nodes, files, root,
                 mainfile, parameters, input, regs, stdout>>

CollectLines(d) ==
  IF d = 0
  THEN { Line(0, "TranslationUnitDecl", NoLoc, NoLoc, NoLoc, NoLoc,
              NoPayload) }
  ELSE IF d = 1
  THEN { Line(1, "FullComment", <<"/a.c", 1, 1>>, NoLoc, NoLoc, NoLoc,
              NoPayload),
         Line(1, "FullComment", <<"/b.c", 1, 1>>, NoLoc, NoLoc, NoLoc,
              NoPayload) }
  ELSE IF d = 2
  THEN { Line(2, "ParamCommandComment", NoLoc, <<2, 1>>, NoLoc, NoLoc,
              Param("count")),
         Line(2, "TextComment", NoLoc, NoLoc, NoLoc, NoLoc,
              Text(<<"b">>)) }
  ELSE { Line(3, "TextComment", NoLoc, NoLoc, NoLoc, NoLoc,
              Text(<<"a">>)),
         Line(3, "TextComment", NoLoc, NoLoc, NoLoc, NoLoc,
              Text(<<"b">>)) }

ReadCollectLine ==
  /\ Len(input) < MaxCollectLines
  /\ \E d \in 0..3 :
       /\ d <= Len(stack)
       /\ stack = <<>> => d = 0
       /\ stack # <<>> => d >= 1
       /\ \E l \in CollectLines(d) : ParseLine(l)

AskCollect == \E f \in Files \cup {None} : RootCollectParameters(f)

NextCollect == StartParse \/ ReadCollectLine \/ EndOfStream \/ AskCollect

SpecCollect == Init /\ [][NextCollect]_vars

(***************************************************************************)
(* The tree below a node, flattened in pre-order with depths               *)
(***************************************************************************)
RECURSIVE Flatten(_, _)
RECURSIVE FlattenAll(_, _)
Flatten(n, d) == <<<<n, d>>>> \o FlattenAll(nodes[n].children, d + 1)
FlattenAll(cs, d) ==
  IF cs = <<>> THEN <<>> ELSE Flatten(Head(cs), d) \o FlattenAll(Tail(cs), d)

\* first line at depth 0, every later depth between 1 and the previous + 1
ValidDepths(ls) ==
  /\ ls # <<>>
  /\ ls[1].depth = 0
  /\ \A i \in 2..Len(ls) :
        ls[i].depth >= 1 /\ ls[i].depth <= ls[i - 1].depth + 1

ClassOf(stmt) ==
  IF get_clang_class(stmt) # None THEN get_clang_class(stmt)
  ELSE "ClangDefaultObject"

\* C1: once the dump of a valid depth-labelled line sequence has been read,
\* the tree is built and its pre-order flattening is the input: line i is
\* node i, of the class of its kind, at the depth of its line.
C1_RoundTrip ==
  (pc \in {"parsed", "raised"} /\ ValidDepths(input)) =>
    /\ pc = "parsed"
    /\ Len(nodes) = Len(input)
    /\ Flatten(root, 0) = [i \in 1..Len(input) |-> <<i, input[i].depth>>]
    /\ \A i \in 1..Len(input) : nodes[i].cls = ClassOf(input[i].stmt)

\* the nodes below (and including) a node
InTree(n, top) == \E i \in 1..Len(Flatten(top, 0)) : Flatten(top, 0)[i][1] = n

\* the node of the last line was dropped by the tree builder (too deep, or
\* no open parent left)
Dropped(n) == n = Len(nodes) /\ (stack = <<>> \/ Last(stack) # n)

RegsOf(f) == {i \in 1..Len(regs) : regs[i].file = f}
LastReg(f, L) ==
  CHOOSE i \in RegsOf(f) :
    /\ regs[i].line = L
    /\ \A j \in RegsOf(f) : regs[j].line = L => j <= i

TablesAreLastWrites ==
  \A f \in Files :
    /\ f \in DOMAIN files <=> RegsOf(f) # {}
    /\ f \in DOMAIN files =>
         /\ DOMAIN files[f] = {regs[i].line : i \in RegsOf(f)}
         /\ \A L \in DOMAIN files[f] : files[f][L] = regs[LastReg(f, L)].id

\* a register_function call for the object its line already holds
RegistersSameAgain ==
  /\ regs' # regs
  /\ Last(regs').file \in DOMAIN files
  /\ Last(regs').line \in DOMAIN files[Last(regs').file]
  /\ files[Last(regs').file][Last(regs').line] = Last(regs').id

\* C5: after any sequence of register_function calls a file's table has one
\* entry per registered line, holding the object registered last at that
\* line; registering the object a line already holds changes no table and
\* no get_at_line result.
C5_LastWriteWins ==
  /\ []TablesAreLastWrites
  /\ [][RegistersSameAgain =>
          /\ files' = files
          /\ \A f \in DOMAIN files : \A q \in 0..MaxQueryLine :
                get_at_line(files'[f], q) = get_at_line(files[f], q)]_vars

\* two objects registered at one line of one file, the later one twice
C5_Witness ==
  \E i, j, k \in 1..Len(regs) :
    /\ i < j /\ j < k
    /\ regs[i].file = regs[j].file /\ regs[i].line = regs[j].line
    /\ regs[i].id # regs[j].id
    /\ regs[k] = regs[j]
    /\ files[regs[j].file][regs[j].line] = regs[j].id

Occurrences(seq, x) == Cardinality({i \in 1..Len(seq) : seq[i] = x})
FirstSeen(seq, x) ==
  CHOOSE i \in 1..Len(seq) : seq[i] = x /\ \A j \in 1..(i - 1) : seq[j] # x

\* C6: for every parameter name the ranked output holds each distinct
\* description once, by non-increasing number of occurrences, descriptions
\* of equal count by first occurrence in the collected sequence.
C6_RankedByFrequency ==
  result.op = "_reduce_parameters" =>
    /\ result.exc = None
    /\ DOMAIN result.val = DOMAIN input
    /\ \A k \in DOMAIN input :
         LET r == result.val[k]
             c == input[k]
         IN /\ {r[i] : i \in 1..Len(r)} = {c[i] : i \in 1..Len(c)}
            /\ \A i, j \in 1..Len(r) : i # j => r[i] # r[j]
            /\ \A i, j \in 1..Len(r) : i < j =>
                  /\ Occurrences(c, r[i]) >= Occurrences(c, r[j])
                  /\ Occurrences(c, r[i]) = Occurrences(c, r[j]) =>
                        FirstSeen(c, r[i]) < FirstSeen(c, r[j])

\* a description seen once, then another seen twice, for `count`; and a tie
\* for `n`
C6_Witness ==
  /\ result.op = "_reduce_parameters"
  /\ input["count"] = << <<"b">>, <<"a">>, <<"a">> >>
  /\ result.val["count"] = << <<"a">>, <<"b">> >>
  /\ input["n"] = << <<"b">>, <<"a">>, <<"b">>, <<"a">> >>
  /\ result.val["n"] = << <<"b">>, <<"a">> >>

\* the file filter a hint query applies: the one given, else the main file,
\* none when all is set
FilterOf(r) ==
  IF r.op = "parameters" THEN mainfile
  ELSE IF ~r.arg.all /\ r.arg.filename = None THEN mainfile
  ELSE r.arg.filename

IsHintQuery(r) == r.op \in {"collect_parameters", "parameters"}

\* the parameter commands of a FullComment, and the FullComments of the tree
ParamCommands(fc) ==
  {nodes[fc].children[i] : i \in 1..Len(nodes[fc].children)}
    \cap {c \in 1..Len(nodes) : nodes[c].cls = "ClangParamCommandComment"}
FullComments ==
  {n \in 1..Len(nodes) : nodes[n].cls = "ClangFullComment" /\ InTree(n, root)}
Ranked(r, k) == {r.val[k][i] : i \in 1..Len(r.val[k])}

\* C7: with a file filter (given, or the main file by default) every
\* description in the result comes from a ParamCommandComment of that name
\* under a FullComment of that file; with all set and no filter the
\* FullComments of every file contribute their parameters.
C7_HintsScopedToFile ==
  (IsHintQuery(result) /\ result.exc = None) =>
    LET F == FilterOf(result)
    IN /\ F # None =>
            \A k \in DOMAIN result.val : \A d \in Ranked(result, k) :
              \E fc \in FullComments : \E c \in ParamCommands(fc) :
                /\ nodes[fc].filename = F
                /\ nodes[c].name = k
                /\ description(c).val = d
       /\ F = None =>
            \A fc \in FullComments : \A c \in ParamCommands(fc) :
              /\ nodes[c].name \in DOMAIN result.val
              /\ \E c2 \in ParamCommands(fc) :
                    /\ nodes[c2].name = nodes[c].name
                    /\ description(c2).val \in Ranked(result, nodes[c].name)

\* the default query on a tree with comments of both files that describe
\* the parameter differently: only the main file's description is returned
C7_Witness ==
  /\ result.op = "collect_parameters" /\ result.exc = None
  /\ ~result.arg.all /\ result.arg.filename = None
  /\ mainfile = "/a.c"
  /\ \E fa, fb \in FullComments :
        /\ nodes[fa].filename = "/a.c" /\ nodes[fb].filename = "/b.c"
        /\ \E ca \in ParamCommands(fa), cb \in ParamCommands(fb) :
              /\ nodes[ca].name = nodes[cb].name
              /\ description(ca).val # description(cb).val
              /\ Ranked(result, nodes[ca].name) = {description(ca).val}

\* C9: parameters / collect_parameters on a Parser whose main file is not
\* set return an empty mapping and raise nothing.
C9_ParametersBeforeParse ==
  (/\ IsHintQuery(result) /\ mainfile = None
   /\ result.op = "collect_parameters" =>
         (~result.arg.all /\ result.arg.filename = None)) =>
    (result.exc = None /\ result.val = EmptyDict)

\* C10: a depth jump of more than 1 ends the parse in an outcome other than
\* success: no root and no main file are installed for the queries.
C10_DepthJumpFatal ==
  "ERROR: too deep" \in stdout =>
    (pc # "parsed" /\ root = NoRoot /\ mainfile = None)

\* C2: get_at_line returns the function registered at the line, else the
\* function at the smallest registered line L with line <= L <= line + 4,
\* else the empty value; never a function declared before the line.
C2_NearestLookup ==
  (result.op = "get_func" /\ mainfile # None) =>
    LET t == files[mainfile]
        q == result.arg
        near == {L \in DOMAIN t : q <= L /\ L <= q + 4}
    IN /\ result.exc = None
       /\ q \in DOMAIN t => result.val = Obj(t[q])
       /\ (q \notin DOMAIN t /\ near = {}) => result.val = EmptyStr
       /\ (q \notin DOMAIN t /\ near # {}) =>
            \E L \in near : /\ \A k \in near : L <= k
                             /\ result.val = Obj(t[L])
       /\ result.val # EmptyStr =>
            /\ nodes[result.val.id].cls = "ClangFunctionDecl"
            /\ nodes[result.val.id].line >= q
            /\ nodes[result.val.id].line <= q + 4

\* a query between two registered lines, the nearer one behind it
C2_Witness ==
  /\ result.op = "get_func" /\ mainfile # None
  /\ result.arg \notin DOMAIN files[mainfile]
  /\ \E L \in DOMAIN files[mainfile] : L < result.arg
  /\ result.val # EmptyStr

\* C3 as stated: with a single function registered at line L in the main
\* file, get_func(L + 4) returns it and get_func(L + 5) returns the empty
\* result.
C3_WindowAfter ==
  (/\ result.op = "get_func" /\ mainfile # None
   /\ Cardinality(DOMAIN files[mainfile]) = 1) =>
    LET t == files[mainfile]
        L == CHOOSE k \in DOMAIN t : TRUE
    IN /\ result.arg = L + 4 =>
            (result.val = Obj(t[L]) /\ nodes[t[L]].line = L)
       /\ result.arg = L + 5 => result.val = EmptyStr

\* C3, amended: the window lies before the declaration.  With a single
\* function registered at line L in the main file, get_func(L - 4) returns
\* it, get_func(L - 5) returns the empty result, and so does every query
\* after L (L + 4 and L + 5 among them).
C3_WindowBoundary ==
  (/\ result.op = "get_func" /\ mainfile # None
   /\ Cardinality(DOMAIN files[mainfile]) = 1) =>
    LET t == files[mainfile]
        L == CHOOSE k \in DOMAIN t : TRUE
    IN /\ result.arg = L - 4 =>
            (result.val = Obj(t[L]) /\ nodes[t[L]].line = L)
       /\ result.arg = L - 5 => result.val = EmptyStr
       /\ result.arg > L => result.val = EmptyStr

C3_Witness ==
  /\ result.op = "get_func" /\ mainfile # None
  /\ Cardinality(DOMAIN files[mainfile]) = 1
  /\ \E L \in DOMAIN files[mainfile] :
        result.arg = L - 4 /\ result.val = Obj(files[mainfile][L])

\* C8: get_func on a Parser whose main file is not set returns None and
\* raises nothing, for every line.
C8_GetFuncBeforeParse ==
  (result.op = "get_func" /\ mainfile = None) =>
    (result.exc = None /\ result.val = PyNone)

\* a parse that registered functions, none of them for the parsed file
C8_Witness ==
  /\ result.op = "get_func" /\ mainfile = None
  /\ pc = "parsed" /\ files # EmptyDict
  /\ result.val = PyNone

\* the same, for the dumps in which no node constructor raises
RoundTripWhenBuilt ==
  (pc = "parsed" /\ ValidDepths(input)) =>
    /\ Len(nodes) = Len(input)
    /\ Flatten(root, 0) = [i \in 1..Len(input) |-> <<i, input[i].depth>>]
    /\ \A i \in 1..Len(input) : nodes[i].cls = ClassOf(input[i].stmt)

\* the lines of the input whose node is in some function table
RegisteredNodes ==
  {files[f][L] : <<f, L>> \in {<<f, L>> \in Files \X (0..12) :
                                 f \in DOMAIN files /\ L \in DOMAIN files[f]}}

\* a FunctionDecl line whose payload is neither the scratch marker nor a
\* signature (an absent payload included), a ParmVarDecl line whose payload
\* is not a parameter
BadFunctionPayload(l) ==
  /\ l.stmt = "FunctionDecl"
  /\ ~ScratchMatch(l.right) /\ ~FuncMatch(l.right)
BadParmPayload(l) == l.stmt = "ParmVarDecl" /\ ~ParmMatch(l.right)

\* a node is a child of exactly one node
Parents(n) ==
  {p \in 1..Len(nodes) :
     \E k \in 1..Len(nodes[p].children) : nodes[p].children[k] = n}

\* C11: a FunctionDecl line whose payload matches neither the scratch marker
\* nor the signature grammar does not end the parse: its node exists with
\* name '' and line 0, is in no function table, and is attached below the
\* open node of its depth.
C11_BadFunctionPayloadNonFatal ==
  \A i \in 1..Len(input) :
    BadFunctionPayload(input[i]) =>
      /\ pc # "raised"
      /\ i <= Len(nodes)
      /\ nodes[i].cls = "ClangFunctionDecl"
      /\ nodes[i].name = "" /\ nodes[i].line = 0
      /\ i \notin RegisteredNodes
      /\ i > 1 => Cardinality(Parents(i)) = 1

\* C12: a ParmVarDecl line whose payload does not match the parameter
\* grammar does not end the parse: its node exists with empty name and
\* signature and is attached below the open node of its depth.
C12_BadParmPayloadNonFatal ==
  \A i \in 1..Len(input) :
    BadParmPayload(input[i]) =>
      /\ pc # "raised"
      /\ i <= Len(nodes)
      /\ nodes[i].cls = "ClangParmVarDecl"
      /\ nodes[i].name = "" /\ nodes[i].signature = <<>>
      /\ i > 1 => Cardinality(Parents(i)) = 1

\* the Parser the actions have built so far is the one parse computes from
\* the lines read (a first parse)
StepwiseIsParse ==
  /\ pc = "building" =>
       Self = build_lines([NewParser EXCEPT !.pc = "building"], input,
                          parsefile)
  /\ pc \in {"parsed", "raised"} => Self = parse(NewParser, parsefile, input)

\* C13: lines that fail the line grammar are skipped without effect: the
\* nodes, the stack, the current file, the function tables and the outcome
\* of the parse are those of the same stream with these lines removed.
C13_UnmatchedLinesSkipped ==
  LET ls == SelectSeq(input, Matches)
  IN /\ pc = "building" =>
          Self = build_lines([NewParser EXCEPT !.pc = "building"], ls,
                             parsefile)
     /\ pc \in {"parsed", "raised"} => Self = parse(NewParser, parsefile, ls)

\* a parsed dump with an unmatched line between a line that names the file
\* and a function that takes its file from it
C13_Witness ==
  /\ pc = "parsed"
  /\ \E i, j, k \in 1..Len(input) :
        /\ i < j /\ j < k
        /\ Matches(input[i]) /\ input[i].path1 # NoLoc
        /\ ~Matches(input[j])
        /\ Matches(input[k]) /\ input[k].stmt = "FunctionDecl"
        /\ input[k].path1 = NoLoc
        /\ \E n \in 1..Len(nodes) :
              /\ nodes[n].name = "bar" /\ nodes[n].filename = "/a.c"
              /\ files["/a.c"][2] = n

\* C14: for every stream the stack is never popped to empty once the first
\* node was pushed, no stack access fails, and at the end of the stream the
\* stack is not empty, its bottom is the first node, and that node is the
\* root (an empty stream and a second line of depth 0 included).
C14_StackNeverEmptied ==
  /\ exc # "IndexError"
  /\ nodes # <<>> => (stack # <<>> /\ stack[1] = 1)
  /\ pc = "parsed" => (stack # <<>> /\ root = stack[1])

\* the second line of depth 0 alone: the stack of a dump that has
\* lines is not popped to empty.
SecondRootKeepsStack ==
  (input # <<>> /\ nodes # <<>>) => stack # <<>>

\* the location slots of a line, and those that hold a full path
Slots(l) == <<l.path1, l.path2, l.path3>>
FullSlots(l) == {k \in 1..3 : Slots(l)[k] # NoLoc}
PathLines(i) == {j \in 1..i : FullSlots(input[j]) # {}}

\* the file the claim gives to line i: the path of the highest full slot of
\* the last line up to i that has one, '' when there is none
ResolvedFile(i) ==
  IF PathLines(i) = {} THEN ""
  ELSE LET j == CHOOSE j \in PathLines(i) : \A k \in PathLines(i) : k <= j
           m == CHOOSE m \in FullSlots(input[j]) :
                  \A k \in FullSlots(input[j]) : k <= m
       IN Slots(input[j])[m][1]

\* C15: each node's file is the path of the highest-numbered slot of its
\* line that holds a full path, else the file of the previous matched line
\* ('' before any path); the current file is the file of the last line, so
\* it changes only on lines that carry a full path.
C15_SourceResolution ==
  /\ \A i \in 1..Len(nodes) : nodes[i].filename = ResolvedFile(i)
  /\ curfile = ResolvedFile(Len(input))

\* a line with full paths in its first and third slots, a line with one in
\* its first two slots, and a line without path after it
C15_Witness ==
  /\ Len(nodes) = 3
  /\ FullSlots(input[1]) = {1, 3} /\ nodes[1].filename = "/c.h"
  /\ FullSlots(input[2]) = {1, 2} /\ input[2].path1[1] = "/a.c"
  /\ nodes[2].filename = "/b.c"
  /\ FullSlots(input[3]) = {} /\ nodes[3].filename = "/b.c"
  /\ curfile = "/b.c"

\* the declaration line the claim gives to a line of the dump
DeclaredLine(l) ==
  IF l.line1 # NoLoc THEN l.line1[1]
  ELSE IF l.path1 # NoLoc THEN l.path1[2]
  ELSE 0

\* t is s without the blanks at its ends
IsTrimOf(t, s) ==
  /\ t = <<>> \/ (t[1] # " " /\ t[Len(t)] # " ")
  /\ \E a \in 0..Len(s) :
       /\ a + Len(t) <= Len(s)
       /\ \A k \in 1..Len(s) :
            IF k > a /\ k <= a + Len(t) THEN s[k] = t[k - a] ELSE s[k] = " "

\* the text of a signature before its first '('
BeforeParen(sig) ==
  LET ps == {k \in 1..Len(sig) : sig[k] = "("}
  IN IF ps = {} THEN sig
     ELSE SubSeq(sig, 1, (CHOOSE k \in ps : \A j \in ps : k <= j) - 1)

\* the line a line of the dump lies below (valid depth sequences)
ParentLine(i) ==
  CHOOSE j \in 1..(i - 1) :
    /\ input[j].depth = input[i].depth - 1
    /\ \A k \in (j + 1)..(i - 1) : input[k].depth >= input[i].depth

\* the ParmVarDecl lines directly below line n, in the order of the dump
ParmLinesOf(n) ==
  SelectSeq([i \in 1..Len(input) |-> i],
            LAMBDA i : /\ i > n /\ input[i].stmt = "ParmVarDecl"
                      /\ input[i].depth = input[n].depth + 1
                      /\ ParentLine(i) = n)

\* C16: a FunctionDecl with a signature payload has the line of its first
\* slot (line:col, else path:line:col, else 0); when that is not 0 it is
\* registered once, at that line, under its resolved file, with its name
\* and the trimmed text before the first '(' of its signature as return
\* type, and its args are its ParmVarDecl children in document order.
C16_DeclarationLine ==
  \A n \in 1..Len(nodes) :
    (input[n].stmt = "FunctionDecl" /\ FuncMatch(input[n].right)) =>
      LET L == DeclaredLine(input[n])
          here == [file |-> ResolvedFile(n), line |-> L, id |-> n]
      IN /\ nodes[n].line = L
         /\ L = 0 => \A r \in 1..Len(regs) : regs[r].id # n
         /\ L # 0 =>
              /\ Cardinality({r \in 1..Len(regs) : regs[r].id = n}) = 1
              /\ \E r \in 1..Len(regs) : regs[r] = here
              /\ L \in DOMAIN files[here.file]
              /\ \/ files[here.file][L] = n
                 \/ \E r \in 1..Len(regs) :
                      /\ regs[r].id > n
                      /\ regs[r].file = here.file /\ regs[r].line = L
              /\ nodes[n].name = input[n].right.name
              /\ IsTrimOf(nodes[n].ret, BeforeParen(input[n].right.sig))
              /\ args(nodes, n) = ParmLinesOf(n)
              /\ \A k \in 1..Len(args(nodes, n)) :
                   /\ nodes[args(nodes, n)[k]].name =
                        input[args(nodes, n)[k]].right.name
                   /\ nodes[args(nodes, n)[k]].signature =
                        input[args(nodes, n)[k]].right.sig

\* the scenario of the claim: foo 'int (int)' at path:10:1 with one
\* ParmVarDecl child `used n 'int'` and a second child that is a function
\* of two path slots, registered under the second one at the line of the
\* first
C16_Witness ==
  /\ pc = "parsed"
  /\ \E n \in 1..Len(nodes) :
       /\ nodes[n].name = "foo" /\ nodes[n].line = 10
       /\ nodes[n].ret = <<"i">>
       /\ files["/a.c"][10] = n
       /\ Len(nodes[n].children) = 2
       /\ Len(args(nodes, n)) = 1
       /\ nodes[args(nodes, n)[1]].name = "n"
       /\ nodes[args(nodes, n)[1]].signature = IntSig
  /\ \E m \in 1..Len(nodes) :
       /\ nodes[m].name = "bar" /\ nodes[m].ret = <<"i", " ", "*">>
       /\ "/b.c" \in DOMAIN files /\ 10 \in DOMAIN files["/b.c"]
       /\ files["/b.c"][10] = m

\* a tree as a value: the fields of a node and the trees of its children
RECURSIVE TreeView(_, _)
TreeView(ns, n) ==
  [node |-> [ns[n] EXCEPT !.children = <<>>],
   children |-> [k \in 1..Len(ns[n].children) |->
                   TreeView(ns, ns[n].children[k])]]

\* the function tables as values: per file and line, the function held
TableView(fs, ns) ==
  [f \in DOMAIN fs |-> [L \in DOMAIN fs[f] |-> TreeView(ns, fs[f][L])]]

\* what get_func returns, as a value
FuncView(ns, v) == IF "id" \in DOMAIN v THEN TreeView(ns, v.id) ELSE v

\* the Parser that has parsed only the dump of the current parse
Fresh == parse(NewParser, parsefile, input)

\* C17: after a parse, whatever the Parser parsed before, the root, the
\* function tables, the main file and the cached parameters are those of a
\* fresh Parser that parsed only this dump, and so is what get_func returns.
C17_SessionsIndependent ==
  pc = "parsed" =>
    /\ Fresh.pc = "parsed"
    /\ TreeView(nodes, root) = TreeView(Fresh.nodes, Fresh.root)
    /\ DOMAIN files = DOMAIN Fresh.files
    /\ TableView(files, nodes) = TableView(Fresh.files, Fresh.nodes)
    /\ mainfile = Fresh.mainfile
    /\ result = NoResult => parameters = Fresh.parameters
    /\ result.op = "get_func" =>
         FuncView(nodes, result.val) =
           IF Fresh.mainfile = None THEN PyNone
           ELSE FuncView(Fresh.nodes,
                         get_at_line(Fresh.files[Fresh.mainfile], result.arg))

\* the same for the root alone, which every completed parse replaces
SessionRootIsFresh ==
  pc = "parsed" => TreeView(nodes, root) = TreeView(Fresh.nodes, Fresh.root)

\* the registry alone: a second parse of a dump without functions
\* leaves the tables and the main file of the first parse in place
SessionRegistryIsFresh ==
  pc = "parsed" => (DOMAIN files = DOMAIN Fresh.files
                     /\ mainfile = Fresh.mainfile)

\* the cache alone: the parameters cached by a query after one parse
\* are gone after the next
SessionCacheIsFresh ==
  (pc = "parsed" /\ result = NoResult) => parameters = EmptyDict

\* build_tree handles the node of a line after the first
LineStep ==
  /\ Len(input') = Len(input) + 1
  /\ Len(nodes') = Len(nodes) + 1
  /\ stack # <<>>

\* the new node becomes the last child of p and no other node changes
AttachedTo(p) ==
  /\ nodes'[p].children = Append(nodes[p].children, Len(nodes'))
  /\ \A q \in 1..Len(nodes) : q # p => nodes'[q] = nodes[q]

\* the stack becomes the open nodes and the new node, which is attached to
\* the last of them
PushedOn(open) ==
  /\ open # <<>>
  /\ stack' = Append(open, Len(nodes'))
  /\ AttachedTo(Last(open))

\* the new node is attached to no node
NotAttached == \A q \in 1..Len(nodes) : nodes'[q] = nodes[q]

PassingCommands(F) ==
  UNION {ParamCommands(fc) :
           fc \in {n \in FullComments : F = None \/ nodes[n].filename = F}}

\* the number of times a description was collected for a name
Collected(r, k, d) ==
  IF k \in DOMAIN r.val THEN Occurrences(r.val[k], d) ELSE 0

\* C19: a description is collected for a parameter name as many times as
\* there are ParamCommandComment nodes of that name and description below
\* the FullComments that pass the file filter, several of one name in one
\* FullComment included; no other text is collected.
C19_EveryOccurrenceCounted ==
  (result.op = "_root.collect_parameters" /\ result.exc = None) =>
    LET cs == PassingCommands(result.arg)
    IN /\ DOMAIN result.val = {nodes[c].name : c \in cs}
       /\ \A k \in DOMAIN result.val :
            \A d \in {result.val[k][i] : i \in 1..Len(result.val[k])}
                       \cup {description(c).val : c \in cs} :
              Collected(result, k, d) =
                Cardinality({c \in cs : /\ nodes[c].name = k
                                        /\ description(c).val = d})

\* the occurrences are counted when every FullComment names a parameter
\* once
CountedOncePerComment ==
  (/\ result.op = "_root.collect_parameters" /\ result.exc = None
   /\ \A fc \in FullComments : Cardinality(ParamCommands(fc)) <= 1) =>
    LET cs == PassingCommands(result.arg)
    IN /\ DOMAIN result.val = {nodes[c].name : c \in cs}
       /\ \A k \in DOMAIN result.val :
            \A d \in {result.val[k][i] : i \in 1..Len(result.val[k])}
                       \cup {description(c).val : c \in cs} :
              Collected(result, k, d) =
                Cardinality({c \in cs : /\ nodes[c].name = k
                                        /\ description(c).val = d})

\* the stack is the path from the root to the node of the last line, and
\* every other node has one parent
StackIsPath ==
  /\ Len(stack) = Last(input).depth + 1
  /\ Last(stack) = Len(nodes)
  /\ stack[1] = 1
  /\ \A i \in 2..Len(stack) : stack[i] \in
        {nodes[stack[i - 1]].children[k] :
           k \in 1..Len(nodes[stack[i - 1]].children)}
  /\ \A n \in 2..Len(nodes) : Cardinality(Parents(n)) = 1
  /\ Parents(1) = {}

\* C20: after each line of a stream whose first line has depth 0 and that
\* has not triggered the too-deep error, the stack has the length of the
\* line's depth + 1, its top is the node of the line, its bottom the root,
\* each element is a child of the one below it, and every node but the root
\* has exactly one parent.
C20_StackInvariant ==
  (/\ input # <<>> /\ Len(nodes) = Len(input)
   /\ input[1].depth = 0
   /\ "ERROR: too deep" \notin stdout) => StackIsPath

\* the same when no line after the first has depth 0
StackInvariantBelowRoot ==
  (/\ input # <<>> /\ Len(nodes) = Len(input)
   /\ input[1].depth = 0
   /\ \A i \in 2..Len(input) : input[i].depth >= 1
   /\ "ERROR: too deep" \notin stdout) => StackIsPath

\* every function held by a table is a node of the tree below the root
RegistryInTree ==
  \A f \in DOMAIN files : \A L \in DOMAIN files[f] :
    /\ nodes[files[f][L]].cls = "ClangFunctionDecl"
    /\ InTree(files[f][L], root)

\* C21: after build_tree has finished on any line sequence, one cut short
\* by a depth jump of more than 1 included, every FunctionDecl of a function
\* table is a node of the tree reachable from the parse root.
C21_RegistryAgreesWithTree ==
  pc = "parsed" => RegistryInTree

\* the same for the dumps without a depth jump of more than 1
RegistryInTreeWithoutJump ==
  (pc = "parsed" /\ "ERROR: too deep" \notin stdout) => RegistryInTree

====
